---------------------------- MODULE Spec2Model ----------------------------
(***************************************************************************)
(* A model of the three programs of the Translation-Models repository:     *)
(*   estimate_model_parameters.py  (class EM, main)     EM training        *)
(*   find_alignments.py            (class Parser, main) alignment decoder  *)
(*   improve_alignments.py         (class Parser, main) symmetrizer        *)
(* Each program is a sequential script; it is modelled as a state machine  *)
(* with a program counter pc.  The three programs are three                 *)
(* specifications (SpecEM, SpecFind, SpecImprove) over one set of           *)
(* variables; a variable a program does not use keeps its initial value.    *)
(***************************************************************************)
EXTENDS Integers, Sequences, FiniteSets, TLC

VARIABLES
    pc,                  \* position of the running script
    english_alignments,  \* improve: lines of the p(f|e) alignment file
    foreign_alignments,  \* improve: lines of the p(e|f) alignment file
    ae,                  \* improve: Parser.ae, sentence index -> set of (i, j)
    af,                  \* improve: Parser.af, sentence index -> set of (i, j)
    n,                   \* number of sentence pairs (Parser.n, EM.n)
    k,                   \* loop variable of main / of iterate
    alignment,           \* improve: the growing alignment of sentence pair k
    words,               \* improve: <<{i}, {j}>> positions that have alignments
    pending,             \* improve: points of the for loop not yet visited
    order,               \* improve: points visited so far, in visiting order
    out,                 \* lines written to standard output
    english_file,        \* estimate, find: the english corpus file, a list of
                         \*   lines, each line the list of its tokens
    foreign_file,        \* estimate, find: the foreign corpus file
    e,                   \* estimate, find: list of english sentences
    f,                   \* estimate, find: list of foreign sentences
    model,               \* estimate, find: self.model, 1 or 2
    t,                   \* estimate, find: self.t, e -> f -> t(f|e)
    q,                   \* estimate, find: self.q, (i, l, m) -> j -> q(j|i,l,m)
    tfe,                 \* find: lines of the parameter file .tfe
    qji,                 \* find: lines of the parameter file .qji
    a,                   \* find: the list a of the last find_alignments call
    count,               \* estimate: the expected counts of iterate
    iteration,           \* estimate: iterations completed by the running iterate
    call,                \* estimate: 1 or 2, the call of iterate main is in
    msteps,              \* estimate: the model of every M-step so far, in order
    written              \* estimate: the entries written to the output files

improveVars == <<english_alignments, foreign_alignments, ae, af, alignment,
                 words, pending, order>>

corpusVars == <<english_file, foreign_file, e, f>>

paramVars == <<model, t, q>>

findVars == <<tfe, qji, a>>

emVars == <<count, iteration, call, msteps, written>>

vars == <<pc, n, k, out, improveVars, corpusVars, paramVars, findVars,
          emVars>>

(***************************************************************************)
(* Bounds of the model.                                                    *)
(***************************************************************************)
MaxF == 3          \* foreign positions in the alignment files are 1..MaxF

(***************************************************************************)
(* Helpers on finite sets of pairs of integers.                            *)
(***************************************************************************)
PairLess(p, r) == p[1] < r[1] \/ (p[1] = r[1] /\ p[2] < r[2])

MinPair(S) == CHOOSE p \in S : \A r \in S \ {p} : PairLess(p, r)

\* sorted(S) for a set of tuples (i, j): increasing i, then increasing j
RECURSIVE Sorted(_)
Sorted(S) == IF S = {} THEN <<>>
             ELSE <<MinPair(S)>> \o Sorted(S \ {MinPair(S)})

(***************************************************************************)
(* Probabilities are exact fractions <<numerator, denominator>> in lowest  *)
(* terms with a positive denominator.                                      *)
(***************************************************************************)
RECURSIVE GCD(_, _)
GCD(x, y) == IF y = 0 THEN x ELSE GCD(y, x % y)

Rat(num, den) == <<num \div GCD(num, den), den \div GCD(num, den)>>

\* x * y, reduced across before multiplying
RMul(x, y) ==
    LET g1 == GCD(x[1], y[2])
        g2 == GCD(y[1], x[2])
    IN  IF x[1] = 0 \/ y[1] = 0 THEN <<0, 1>>
        ELSE <<(x[1] \div g1) * (y[1] \div g2),
               (x[2] \div g2) * (y[2] \div g1)>>

\* x + y, over the least common denominator
RAdd(x, y) ==
    LET g == GCD(x[2], y[2])
    IN  Rat(x[1] * (y[2] \div g) + y[1] * (x[2] \div g), (x[2] \div g) * y[2])

\* x / y
RDiv(x, y) == RMul(x, <<y[2], y[1]>>)

\* The values of the parameter tables of find_alignments.py are Python
\* floats, IEEE 754 doubles.  A positive double is <<hi, lo, x>>: its 53-bit
\* significand is hi * 2^27 + lo, with 2^25 <= hi < 2^26 and lo < 2^27, and
\* its value is significand * 2^(x - 52); zero is <<0, 0, 0>>.  Negative
\* values, subnormals and infinities do not occur for the exponents of the
\* values of the model.
Limb == 2^14

\* The significand of a double in four digits of base 2^14, lowest first.
Limbs(d) ==
    << d[2] % Limb,
       (d[2] \div Limb) + (d[1] % 2) * 2^13,
       (d[1] \div 2) % Limb,
       (d[1] \div 2) \div Limb >>

\* The sum of the products u[i] * v[c - i] of the digits of two significands.
Column(u, v, c) ==
    LET term(i) == IF i \in 1..4 /\ (c - i) \in 1..4 THEN u[i] * v[c - i] ELSE 0
    IN  term(1) + term(2) + term(3) + term(4)

\* The digits c - 1 .. 8 of the exact product of two significands, lowest
\* first.
RECURSIVE Digits(_, _, _, _)
Digits(u, v, c, carry) ==
    IF c > 9 THEN <<>>
    ELSE LET total == Column(u, v, c) + carry
         IN  <<total % Limb>> \o Digits(u, v, c + 1, total \div Limb)

\* The part of the bits from .. from + width - 1 of a number that lies in
\* its digit d, whose lowest bit is the bit low of the number.
LimbPart(d, low, from, width) ==
    IF low + 14 <= from \/ low >= from + width THEN 0
    ELSE LET skip == IF from > low THEN from - low ELSE 0
             pos == IF low > from THEN low - from ELSE 0
         IN  ((d \div 2^skip) % 2^(width - pos)) * 2^pos

\* The bits from .. from + width - 1 of the product P, as a number.
Bits(P, from, width) ==
    LET part(x) == LimbPart(P[x], 14 * (x - 1), from, width)
    IN  part(1) + part(2) + part(3) + part(4)
        + part(5) + part(6) + part(7) + part(8)

\* u * v of two floats: the exact product of the significands, rounded to
\* 53 bits, to the nearest and to the even one of two nearest.
DoubleMul(u, v) ==
    IF u[1] = 0 \/ v[1] = 0 THEN <<0, 0, 0>>
    ELSE LET P == Digits(Limbs(u), Limbs(v), 2, 0)
             s == IF P[8] >= 2^7 THEN 53 ELSE 52
             hi == Bits(P, s + 27, 26)
             lo == Bits(P, s, 27)
             guard == Bits(P, s - 1, 1)
             sticky == Bits(P, 0, 26) # 0 \/ Bits(P, 26, s - 27) # 0
             up == guard = 1 /\ (sticky \/ lo % 2 = 1)
             x == u[3] + v[3] + s - 52
         IN  IF ~up THEN <<hi, lo, x>>
             ELSE IF lo + 1 < 2^27 THEN <<hi, lo + 1, x>>
             ELSE IF hi + 1 < 2^26 THEN <<hi + 1, 0, x>>
             ELSE <<2^25, 0, x + 1>>

\* u < v of two floats that are not negative
DoubleLess(u, v) ==
    IF v[1] = 0 THEN FALSE
    ELSE IF u[1] = 0 THEN TRUE
    ELSE \/ u[3] < v[3]
         \/ u[3] = v[3] /\ u[1] < v[1]
         \/ u[3] = v[3] /\ u[1] = v[1] /\ u[2] < v[2]

\* Special English word that can be aligned to any foreign word.
NULL == "NULL"

\* The english word at position j of the sentence es; position 0 is NULL.
WordAt(es, j) == IF j = 0 THEN NULL ELSE es[j]

\* The set of the tokens of a sentence.
Tokens(sentence) == {sentence[x] : x \in 1..Len(sentence)}

\* The state of the variables estimate_model_parameters.py alone has, when
\* another program runs.
NoEstimate ==
    /\ count = <<>>
    /\ iteration = 0
    /\ call = 0
    /\ msteps = <<>>
    /\ written = <<>>

(***************************************************************************)
(* improve_alignments.py                                                   *)
(***************************************************************************)

\* Sentence indices that occur in the alignment files.
SentenceIndices == {1, 2}

\* English positions that occur in the alignment files.  The decoder writes
\* a line only for a position that is not 0, the NULL word, so that no line
\* of either file has a 0.
EnglishPositions == {1, 2}

\* A line of the p(f|e) alignment file, as find_alignments writes it:
\* sentence index, english position, foreign position.
EnglishLines == SentenceIndices \X EnglishPositions \X (1..MaxF)

\* A line of the p(e|f) alignment file (the decoder run with the two
\* languages exchanged): sentence index, foreign position, english position.
ForeignLines == SentenceIndices \X (1..MaxF) \X EnglishPositions

\* read_alignments, first file: k = token[0], j = token[1], i = token[2];
\* the point stored in ae[k] is (i, j).
EnglishPoint(token) == <<token[3], token[2]>>

\* read_alignments, second file: k = token[0], i = token[1], j = token[2];
\* the point stored in af[k] is (i, j).
ForeignPoint(token) == <<token[2], token[3]>>

\* self.ae, built by setdefault(k, set()) and add over the lines.
EnglishDict(lines) ==
    [s \in {l[1] : l \in lines} |->
        {EnglishPoint(l) : l \in {x \in lines : x[1] = s}}]

\* self.af, built by setdefault(k, set()) and add over the lines.
ForeignDict(lines) ==
    [s \in {l[1] : l \in lines} |->
        {ForeignPoint(l) : l \in {x \in lines : x[1] = s}}]

\* Positions of adjacent and diagonal neighbouring points, in loop order.
neighbours == << <<-1, 0>>, <<1, 0>>, <<0, -1>>, <<0, 1>>,
                 <<-1, -1>>, <<-1, 1>>, <<1, -1>>, <<1, 1>> >>

\* The test written with "and": both words must be without an alignment.
NotYetAlignedBoth(p, w) == p[1] \notin w[1] /\ p[2] \notin w[2]

\* i not in words[0] or j not in words[1]
NotYetAligned(p, w) == p[1] \notin w[1] \/ p[2] \notin w[2]

\* A coordinate mix-up: the point is added as (j, i).
AddPointSwapped(p, st) ==
    [alignment |-> st.alignment \cup {<<p[2], p[1]>>},
     words |-> <<st.words[1] \cup {p[1]}, st.words[2] \cup {p[2]}>>]

\* alignment.add((i, j)); words[0].add(i); words[1].add(j)
AddPoint(p, st) ==
    [alignment |-> st.alignment \cup {p},
     words |-> <<st.words[1] \cup {p[1]}, st.words[2] \cup {p[2]}>>]

\* The body without its two tests: every visited point is added.
ExamineNeighbourEager(p, d, st) == AddPoint(p, st)

\* The body of "for (di, dj) in neighbours" for the d-th neighbour.
ExamineNeighbour(p, d, st) ==
    IF <<p[1] + neighbours[d][1], p[2] + neighbours[d][2]>> \in st.alignment
       /\ NotYetAligned(p, st.words)
    THEN AddPoint(p, st)
    ELSE st

\* The loop "for (di, dj) in neighbours" from the d-th neighbour on.
RECURSIVE ExamineNeighbours(_, _, _)
ExamineNeighbours(p, d, st) ==
    IF d > Len(neighbours) THEN st
    ELSE ExamineNeighbours(p, d + 1, ExamineNeighbour(p, d, st))

\* One pass of the body of "for (i, j) in union.difference(alignment)".
VisitPoint(p, st) == ExamineNeighbours(p, 1, st)

\* The state of improve_alignments(k) before the loop over the points.
StartState(Ae, Af) ==
    [alignment |-> Ae \cap Af,
     words |-> <<{p[1] : p \in Ae \cap Af}, {p[2] : p \in Ae \cap Af}>>]

\* The points the for loop iterates over: union.difference(alignment).
PointsToVisit(Ae, Af) == (Ae \cup Af) \ (Ae \cap Af)

\* The alignment the sweep ends with when it visits the points in order o.
RECURSIVE SweepFrom(_, _)
SweepFrom(st, o) ==
    IF o = <<>> THEN st ELSE SweepFrom(VisitPoint(Head(o), st), Tail(o))

SweepResult(Ae, Af, o) == SweepFrom(StartState(Ae, Af), o).alignment

\* A line with the foreign position before the english position.
OutputLineForeignFirst(s, p) == <<s, p[1], p[2]>>

\* sys.stdout.write("%d %d %d\n" % (k, j, i))
OutputLine(s, p) == <<s, p[2], p[1]>>

\* "if j > 0" of the printing loop
Printed(p) == p[2] > 0

\* "for (i, j) in sorted(alignment): if j > 0: write" over the sequence pts
RECURSIVE PrintPoints(_, _)
PrintPoints(s, pts) ==
    IF pts = <<>> THEN <<>>
    ELSE (IF Printed(Head(pts)) THEN <<OutputLine(s, Head(pts))>> ELSE <<>>)
             \o PrintPoints(s, Tail(pts))

\* The lines printed for sentence pair s: sorted(alignment), NULL excluded.
PrintedLines(s, al) == PrintPoints(s, Sorted(al))

\* The subsets of S that have at most b elements.
RECURSIVE BoundedSubsets(_, _)
BoundedSubsets(S, b) ==
    IF b = 0 THEN {{}}
    ELSE LET smaller == BoundedSubsets(S, b - 1)
         IN  smaller \cup {x \cup {y} : x \in smaller, y \in S}

\* The alignment files the model reads: up to three lines of p(f|e)
\* alignments and up to two lines of p(e|f) alignments.
EnglishFiles == BoundedSubsets(EnglishLines, 3)

ForeignFiles == BoundedSubsets(ForeignLines, 2)

InitImprove ==
    /\ pc = "read_alignments"
    /\ english_alignments \in EnglishFiles
    /\ foreign_alignments \in ForeignFiles
    /\ ae = <<>>
    /\ af = <<>>
    /\ n = 0
    /\ k = 0
    /\ alignment = {}
    /\ words = <<{}, {}>>
    /\ pending = {}
    /\ order = <<>>
    /\ out = <<>>
    /\ english_file = <<>>
    /\ foreign_file = <<>>
    /\ e = <<>>
    /\ f = <<>>
    /\ model = 0
    /\ t = <<>>
    /\ q = <<>>
    /\ tfe = {}
    /\ qji = {}
    /\ a = <<>>
    /\ NoEstimate

\* The variables improve_alignments.py does not have.
notImprove == <<corpusVars, paramVars, findVars, emVars>>

\* Parser.read_alignments, called from main; exits with status 1 when the
\* two dictionaries have different numbers of keys.
ReadAlignments ==
    /\ pc = "read_alignments"
    /\ ae' = EnglishDict(english_alignments)
    /\ af' = ForeignDict(foreign_alignments)
    /\ n' = Cardinality(DOMAIN ae')
    /\ IF Cardinality(DOMAIN af') # n'
       THEN pc' = "exit1" /\ k' = k
       ELSE pc' = "improve_loop" /\ k' = 1
    /\ UNCHANGED <<notImprove, english_alignments, foreign_alignments, alignment, words,
                   pending, order, out>>

\* main: "for k in range(1, parser.n + 1)" calls improve_alignments(k);
\* the lookups self.ae[k] and self.af[k] raise KeyError on a missing key.
ImproveStart ==
    /\ pc = "improve_loop"
    /\ k <= n
    /\ IF k \in DOMAIN ae /\ k \in DOMAIN af
       THEN /\ alignment' = StartState(ae[k], af[k]).alignment
            /\ words' = StartState(ae[k], af[k]).words
            /\ pending' = PointsToVisit(ae[k], af[k])
            /\ pc' = "sweep"
       ELSE /\ pc' = "KeyError"
            /\ UNCHANGED <<alignment, words, pending>>
    /\ order' = <<>>
    /\ UNCHANGED <<notImprove, english_alignments, foreign_alignments, ae, af, n, k, out>>

\* One iteration of "for (i, j) in union.difference(alignment)": a set is
\* iterated in an order the program does not choose.
ImproveVisit ==
    /\ pc = "sweep"
    /\ \E p \in pending :
          LET st == VisitPoint(p, [alignment |-> alignment, words |-> words])
          IN  /\ alignment' = st.alignment
              /\ words' = st.words
              /\ pending' = pending \ {p}
              /\ order' = Append(order, p)
    /\ UNCHANGED <<notImprove, pc, english_alignments, foreign_alignments, ae, af, n, k,
                   out>>

\* The printing loop that ends improve_alignments(k).
ImprovePrint ==
    /\ pc = "sweep"
    /\ pending = {}
    /\ out' = out \o PrintedLines(k, alignment)
    /\ k' = k + 1
    /\ pc' = "improve_loop"
    /\ alignment' = {}
    /\ words' = <<{}, {}>>
    /\ order' = <<>>
    /\ UNCHANGED <<notImprove, english_alignments, foreign_alignments, ae, af, n, pending>>

\* main returns when the loop over the sentence pairs is exhausted.
ImproveDone ==
    /\ pc = "improve_loop"
    /\ k > n
    /\ pc' = "done"
    /\ UNCHANGED <<notImprove, english_alignments, foreign_alignments, ae, af, n, k,
                   alignment, words, pending, order, out>>

NextImprove ==
    \/ ReadAlignments
    \/ ImproveStart
    \/ ImproveVisit
    \/ ImprovePrint
    \/ ImproveDone

SpecImprove == InitImprove /\ [][NextImprove]_vars


(***************************************************************************)
(* find_alignments.py                                                      *)
(***************************************************************************)
MaxPairs == 2      \* a corpus file of the decoder has at most MaxPairs lines

\* The sequences over S of length at most b.
RECURSIVE SeqsUpTo(_, _)
SeqsUpTo(S, b) ==
    IF b = 0 THEN {<<>>}
    ELSE LET shorter == SeqsUpTo(S, b - 1)
         IN  shorter \cup {Append(x, y) : x \in shorter, y \in S}

\* The lines of the corpus files the decoder is run on, split into tokens.
\* The foreign word "y" has no entry in the parameter files.
EnglishSentences == {<<"a">>, <<"a", "b">>}

ForeignSentences == {<<"x">>, <<"x", "x">>, <<"y">>}

EnglishCorpusFiles == SeqsUpTo(EnglishSentences, MaxPairs)

ForeignCorpusFiles == SeqsUpTo(ForeignSentences, MaxPairs)

\* The values of the parameter files, as the floats that float(token)
\* gives: 3.000000E-01 and 9.000000E-01 for t, 6.000000E-01 and
\* 2.000000E-01 for q.  In floats 0.2 * 0.9 is greater than 0.6 * 0.3.
TValues == {<<40265318, 53687091, -2>>, <<60397977, 80530637, -1>>}

QValues == {<<40265318, 53687091, -1>>, <<53687091, 26843546, -3>>}

\* A .tfe file: one line "e f t" for each english word (and NULL) and the
\* foreign word "x".
TfeFiles ==
    {{<<w, "x", tv[w]>> : w \in {NULL, "a", "b"}} :
        tv \in [{NULL, "a", "b"} -> TValues]}

\* The keys of a .qji file for sentence lengths up to 2: i, l, m, j.
QjiKeys ==
    {key \in {1, 2} \X {1, 2} \X {1, 2} \X {0, 1, 2} :
        key[1] <= key[3] /\ key[4] <= key[2]}

\* A .qji file: one line "i l m j q" for each key.
QjiFiles ==
    {{<<key[1], key[2], key[3], key[4], g[<<key[1], key[4]>>]>> :
          key \in QjiKeys} :
        g \in [{1, 2} \X {0, 1, 2} -> QValues]}

\* self.t after the loop over the lines of the .tfe file
TDict(lines) ==
    [w \in {l[1] : l \in lines} |->
        [g \in {l[2] : l \in {x \in lines : x[1] = w}} |->
            (CHOOSE l \in lines : l[1] = w /\ l[2] = g)[3]]]

\* self.q after the loop over the lines of the .qji file
QDict(lines) ==
    [key \in {<<l[1], l[2], l[3]>> : l \in lines} |->
        [j \in {l[4] : l \in {x \in lines : <<x[1], x[2], x[3]>> = key}} |->
            (CHOOSE l \in lines :
                <<l[1], l[2], l[3]>> = key /\ l[4] = j)[5]]]

\* Every lookup self.q[(i, l, m)][j] and self.t[e][f] that find_alignments
\* makes for the sentence pair (es, fs) finds its key.
HasKeys(es, fs) ==
    \A i \in 1..Len(fs) : \A j \in 0..Len(es) :
        /\ <<i, Len(es), Len(fs)>> \in DOMAIN q
        /\ j \in DOMAIN q[<<i, Len(es), Len(fs)>>]
        /\ WordAt(es, j) \in DOMAIN t
        /\ fs[i] \in DOMAIN t[WordAt(es, j)]

\* self.q[(i, l, m)][j] * self.t[e[j-1]][f[i-1]]
Score(es, fs, i, j) ==
    DoubleMul(q[<<i, Len(es), Len(fs)>>][j], t[WordAt(es, j)][fs[i]])

\* The comparison written ">=": a later position of equal score wins.
BetterOrEqual(score, max) == ~DoubleLess(score, max)

\* score > max
Better(score, max) == DoubleLess(max, score)

\* "for j in range(1, l + 1)" from position j on
RECURSIVE Scan(_, _, _, _, _, _)
Scan(es, fs, i, j, max, argmax) ==
    IF j > Len(es) THEN argmax
    ELSE IF Better(Score(es, fs, i, j), max)
         THEN Scan(es, fs, i, j + 1, Score(es, fs, i, j), j)
         ELSE Scan(es, fs, i, j + 1, max, argmax)

\* max and argmax start from position 0 (NULL)
ArgMax(es, fs, i) == Scan(es, fs, i, 1, Score(es, fs, i, 0), 0)

\* the list a after "for i in range(1, m + 1)"
AlignmentList(es, fs) == [i \in 1..Len(fs) |-> ArgMax(es, fs, i)]

\* "for i in range(m): if a[i] > 0: write(k + 1, a[i], i + 1)" from i on
RECURSIVE DecoderLines(_, _, _)
DecoderLines(s, al, i) ==
    IF i > Len(al) THEN <<>>
    ELSE (IF al[i] > 0 THEN << <<s + 1, al[i], i>> >> ELSE <<>>)
             \o DecoderLines(s, al, i + 1)

\* main constructs Parser(model=2); the constructor's default is model=1.
InitFind ==
    /\ pc = "read_parameters"
    /\ model \in {1, 2}
    /\ tfe \in TfeFiles
    /\ qji \in IF model = 1 THEN {{}} ELSE QjiFiles
    /\ english_file \in EnglishCorpusFiles
    /\ foreign_file \in ForeignCorpusFiles
    /\ t = <<>>
    /\ q = <<>>
    /\ e = <<>>
    /\ f = <<>>
    /\ a = <<>>
    /\ n = 0
    /\ k = 0
    /\ out = <<>>
    /\ english_alignments = {}
    /\ foreign_alignments = {}
    /\ ae = <<>>
    /\ af = <<>>
    /\ alignment = {}
    /\ words = <<{}, {}>>
    /\ pending = {}
    /\ order = <<>>
    /\ NoEstimate

\* Parser.read_parameters: the .qji file is not read when model is 1.
FindReadParameters ==
    /\ pc = "read_parameters"
    /\ t' = TDict(tfe)
    /\ q' = IF model = 1 THEN q ELSE QDict(qji)
    /\ pc' = "read_corpus"
    /\ UNCHANGED <<emVars, n, k, out, improveVars, corpusVars, model, findVars>>

\* main: the two corpus files are read into the lists e and f.
FindReadCorpus ==
    /\ pc = "read_corpus"
    /\ e' = english_file
    /\ f' = foreign_file
    /\ k' = 0
    /\ pc' = "find_loop"
    /\ UNCHANGED <<emVars, n, out, improveVars, english_file, foreign_file, paramVars,
                   findVars>>

\* main: "for k in range(len(e))" calls find_alignments(k, e[k], f[k]);
\* f[k] raises IndexError, a missing key of q or t raises KeyError.
FindAlignments ==
    /\ pc = "find_loop"
    /\ k < Len(e)
    /\ IF k + 1 > Len(f)
       THEN pc' = "IndexError" /\ UNCHANGED <<a, out, k>>
       ELSE IF ~HasKeys(e[k + 1], f[k + 1])
            THEN pc' = "KeyError" /\ UNCHANGED <<a, out, k>>
            ELSE /\ a' = AlignmentList(e[k + 1], f[k + 1])
                 /\ out' = out \o DecoderLines(k, a', 1)
                 /\ k' = k + 1
                 /\ pc' = pc
    /\ UNCHANGED <<emVars, n, improveVars, corpusVars, paramVars, tfe, qji>>

\* main returns when the loop over the sentence pairs is exhausted.
FindDone ==
    /\ pc = "find_loop"
    /\ k = Len(e)
    /\ pc' = "done"
    /\ UNCHANGED <<emVars, n, k, out, improveVars, corpusVars, paramVars, findVars>>

NextFind ==
    \/ FindReadParameters
    \/ FindReadCorpus
    \/ FindAlignments
    \/ FindDone

SpecFind == InitFind /\ [][NextFind]_vars

(***************************************************************************)
(* estimate_model_parameters.py                                            *)
(***************************************************************************)

\* main: "estimator.iterate(5)" after "estimator.model = 1".
Model1Iterations == 5

\* main: "estimator.iterate(5)" after "estimator.model = 2".
Model2Iterations == 5

\* The corpora of the runs: a pair of an english and a foreign file, each
\* the sequence of its lines and each line the sequence of its tokens.
Corpora ==
    { <<  <<<<"a", "a", "b">>, <<"b", "a", "b">>>>,  <<<<"x">>, <<"y">>>>  >>,
      <<  <<<<"a", "a", "b">>, <<"b", "a", "b">>>>,
          <<<<"x", "x">>, <<"y", "y">>>>  >>,
      <<  <<<<"a">>, <<"b">>>>,  <<<<"x">>, <<"y">>>>  >>,
      <<  <<<<"a", "b">>>>,  <<<<"x", "y">>>>  >>,
      <<  <<<<"a", "b">>, <<"a", "b">>>>,  <<<<"x", "x">>, <<"x", "y">>>>  >>,
      <<  <<<<"a", "a">>, <<"a", "b", "b">>>>,  <<<<"x">>, <<"x">>>>  >>,
      <<  <<<<"a", "NULL">>>>,  <<<<"x">>>>  >>,
      <<  <<<<"a">>>>,  <<<<>>>>  >>,
      <<  <<>>,  <<>>  >>,
      <<  <<<<"a">>, <<"b">>>>,  <<<<"x">>>>  >>,
      <<  <<<<"a">>>>,  <<<<"x">>, <<"y">>>>  >> }

\* create_parameters: t[e] is the set of the foreign words of the sentences
\* e occurs in, and t[NULL] the set of all foreign words.
TSupport ==
    LET english == UNION {Tokens(e[s]) : s \in 1..n}
    IN  [w \in {NULL} \cup english |->
            UNION {Tokens(f[s]) : s \in {x \in 1..n :
                                            w = NULL \/ w \in Tokens(e[x])}}]

\* create_parameters: q[(i, l, m)] is the set of the positions 0..l, for
\* every foreign position i of a sentence pair of lengths l and m.
QSupport ==
    LET keys == UNION {{<<i, Len(e[s]), Len(f[s])>> : i \in 1..Len(f[s])} :
                       s \in 1..n}
    IN  [key \in keys |-> 0..key[2]]

\* initialize: every entry of a key gets 1/float(count), count the number
\* of the entries of the key.
Uniform(table) ==
    [key \in DOMAIN table |->
        [x \in table[key] |-> Rat(1, Cardinality(table[key]))]]

\* iterate: the unnormalized score of english position j for the foreign
\* position i, t[e][f] in model 1 and q[(i, l, m)][j]*t[e][f] in model 2.
Weight(es, fs, i, j) ==
    IF model = 1
    THEN t[WordAt(es, j)][fs[i]]
    ELSE RMul(q[<<i, Len(es), Len(fs)>>][j], t[WordAt(es, j)][fs[i]])

\* iterate: "sum += ..." over the english positions j..l.
RECURSIVE SumFrom(_, _, _, _, _)
SumFrom(es, fs, i, j, sum) ==
    IF j > Len(es)
    THEN sum
    ELSE SumFrom(es, fs, i, j + 1, RAdd(sum, Weight(es, fs, i, j)))

\* iterate: the variable sum of the foreign position i, started with the
\* score of NULL.
Total(es, fs, i) == SumFrom(es, fs, i, 1, Weight(es, fs, i, 0))

\* iterate: "delta[(e, f)] = ... / sum" for the english positions j..l; an
\* assignment replaces the value the key had.
RECURSIVE DeltaWords(_, _, _, _, _)
DeltaWords(es, fs, i, j, delta) ==
    IF j > Len(es)
    THEN delta
    ELSE DeltaWords(es, fs, i, j + 1,
             (<<WordAt(es, j), fs[i]>> :>
                 RDiv(Weight(es, fs, i, j), Total(es, fs, i))) @@ delta)

\* iterate: the loop over the foreign positions i..m that fills delta.
RECURSIVE DeltaPositions(_, _, _, _)
DeltaPositions(es, fs, i, delta) ==
    IF i > Len(fs)
    THEN delta
    ELSE DeltaPositions(es, fs, i + 1, DeltaWords(es, fs, i, 0, delta))

\* iterate: the dictionary delta of a sentence pair, keyed by word pairs.
Delta(es, fs) == DeltaPositions(es, fs, 1, <<>>)

\* iterate: "count.setdefault(key, 0)" and "count[key] += v".
Bump(cnt, key, v) ==
    IF key \in DOMAIN cnt
    THEN [cnt EXCEPT ![key] = RAdd(@, v)]
    ELSE (key :> v) @@ cnt

\* iterate: the update of the expected counts of the word pairs, from the
\* english position j and the foreign position i on.
RECURSIVE CountWords(_, _, _, _, _, _)
CountWords(cnt, es, fs, delta, j, i) ==
    IF j > Len(es)
    THEN cnt
    ELSE IF i > Len(fs)
         THEN CountWords(cnt, es, fs, delta, j + 1, 1)
         ELSE LET d == delta[<<WordAt(es, j), fs[i]>>]
              IN  CountWords([cnt EXCEPT
                                 !.ef = Bump(@, <<WordAt(es, j), fs[i]>>, d),
                                 !.e = Bump(@, WordAt(es, j), d)],
                             es, fs, delta, j, i + 1)

\* iterate (model 2): the update of the expected counts of the positions,
\* from the english position j and the foreign position i on.
RECURSIVE CountPositions(_, _, _, _, _, _)
CountPositions(cnt, es, fs, delta, j, i) ==
    IF j > Len(es)
    THEN cnt
    ELSE IF i > Len(fs)
         THEN CountPositions(cnt, es, fs, delta, j + 1, 1)
         ELSE LET d == delta[<<WordAt(es, j), fs[i]>>]
                  l == Len(es)
                  m == Len(fs)
              IN  CountPositions([cnt EXCEPT
                                     !.ilmj = Bump(@, <<i, l, m, j>>, d),
                                     !.ilm = Bump(@, <<i, l, m>>, d)],
                                 es, fs, delta, j, i + 1)

\* iterate: "count = {}"; the keys (e, f), (e), (i, l, m, j) and (i, l, m)
\* of the dictionary are kept in four maps.
EmptyCount == [ef |-> <<>>, e |-> <<>>, ilmj |-> <<>>, ilm |-> <<>>]

\* iterate: the body of the loop over the sentence pairs.
EStep(cnt, es, fs) ==
    LET delta == Delta(es, fs)
        counted == CountWords(cnt, es, fs, delta, 0, 1)
    IN  IF model = 1
        THEN counted
        ELSE CountPositions(counted, es, fs, delta, 0, 1)

\* A normalizer that is the count of NULL whatever the english word.
TNormalizerNull(cnt, w) == cnt.e[NULL]

\* iterate: the denominator count[(e)] of the revised t[e][f].
TNormalizer(cnt, w) == cnt.e[w]

\* iterate: "self.t[e][f] = count[(e, f)] / count[(e)]".
ReviseT(cnt) ==
    [w \in DOMAIN t |->
        [g \in DOMAIN t[w] |-> RDiv(cnt.ef[<<w, g>>], TNormalizer(cnt, w))]]

\* iterate: "self.q[(i, l, m)][j] = count[(i, l, m, j)] / count[(i, l, m)]".
ReviseQ(cnt) ==
    [key \in DOMAIN q |->
        [j \in DOMAIN q[key] |->
            RDiv(cnt.ilmj[<<key[1], key[2], key[3], j>>], cnt.ilm[key])]]

\* A main that sets model 2 before both calls of iterate.
ModelOfCallTwo(c) == 2

\* main: "estimator.model = 1" before the first call of iterate and
\* "estimator.model = 2" before the second.
ModelOfCall(c) == IF c = 1 THEN 1 ELSE 2

\* main: num_iterations of the call c of iterate.
NumIterations(c) == IF c = 1 THEN Model1Iterations ELSE Model2Iterations

\* The variables estimate_model_parameters.py does not have.
notEstimate == <<improveVars, findVars, out>>

\* The state after "estimator = EM(model=2)" and the opening of the files.
InitEM ==
    /\ pc = "read_corpus"
    /\ \E corpus \in Corpora :
           english_file = corpus[1] /\ foreign_file = corpus[2]
    /\ model = 2
    /\ t = <<>>
    /\ q = <<>>
    /\ e = <<>>
    /\ f = <<>>
    /\ n = 0
    /\ k = 0
    /\ NoEstimate
    /\ out = <<>>
    /\ tfe = {}
    /\ qji = {}
    /\ a = <<>>
    /\ english_alignments = {}
    /\ foreign_alignments = {}
    /\ ae = <<>>
    /\ af = <<>>
    /\ alignment = {}
    /\ words = <<{}, {}>>
    /\ pending = {}
    /\ order = <<>>

\* EM.read_corpus: the lines of both files, split into tokens, become the
\* lists e and f; sys.exit(1) unless they have the same length.
EMReadCorpus ==
    /\ pc = "read_corpus"
    /\ e' = english_file
    /\ f' = foreign_file
    /\ n' = Len(english_file)
    /\ pc' = IF Len(foreign_file) # Len(english_file)
             THEN "exit1"
             ELSE "create_parameters"
    /\ UNCHANGED <<k, english_file, foreign_file, paramVars, emVars,
                   notEstimate>>

\* EM.create_parameters, called with model 2: the entries of t and q.
EMCreateParameters ==
    /\ pc = "create_parameters"
    /\ t' = TSupport
    /\ q' = IF model = 1 THEN q ELSE QSupport
    /\ pc' = "initialize"
    /\ UNCHANGED <<n, k, model, corpusVars, emVars, notEstimate>>

\* EM.initialize, called with model 2: the initial guesses of t and q.
EMInitialize ==
    /\ pc = "initialize"
    /\ t' = Uniform(t)
    /\ q' = IF model = 1 THEN q ELSE Uniform(q)
    /\ pc' = "set_model"
    /\ UNCHANGED <<n, k, model, corpusVars, emVars, notEstimate>>

\* main: "estimator.model = ..." and the call of iterate that follows it.
EMSetModel ==
    /\ pc = "set_model"
    /\ call' = call + 1
    /\ model' = ModelOfCall(call')
    /\ iteration' = 0
    /\ pc' = "iterate"
    /\ UNCHANGED <<n, k, t, q, corpusVars, count, msteps, written,
                   notEstimate>>

\* iterate: an iteration of "for n in range(num_iterations)" begins with
\* the reset of the expected counts.
EMBeginIteration ==
    /\ pc = "iterate"
    /\ iteration < NumIterations(call)
    /\ count' = EmptyCount
    /\ k' = 0
    /\ pc' = "e_step"
    /\ UNCHANGED <<n, paramVars, corpusVars, iteration, call, msteps, written,
                   notEstimate>>

\* iterate: the body of "for k in range(self.n)" for the sentence pair k.
EMEStep ==
    /\ pc = "e_step"
    /\ k < n
    /\ count' = EStep(count, e[k + 1], f[k + 1])
    /\ k' = k + 1
    /\ UNCHANGED <<pc, n, paramVars, corpusVars, iteration, call, msteps,
                   written, notEstimate>>

\* iterate: the revision of t, and of q in model 2, from the counts.
EMMStep ==
    /\ pc = "e_step"
    /\ k = n
    /\ t' = ReviseT(count)
    /\ q' = IF model = 1 THEN q ELSE ReviseQ(count)
    /\ msteps' = Append(msteps, model)
    /\ iteration' = iteration + 1
    /\ pc' = "iterate"
    /\ UNCHANGED <<n, k, model, corpusVars, count, call, written, notEstimate>>

\* iterate returns after num_iterations iterations; main goes on to the
\* second call of iterate or to write_parameters.
EMEndIterate ==
    /\ pc = "iterate"
    /\ iteration = NumIterations(call)
    /\ pc' = IF call = 1 THEN "set_model" ELSE "write_parameters"
    /\ UNCHANGED <<n, k, paramVars, corpusVars, emVars, notEstimate>>

\* EM.write_parameters: a line for every entry of t and, unless the model
\* is 1, for every entry of q; written holds the keys of the lines.
EMWriteParameters ==
    /\ pc = "write_parameters"
    /\ written' =
           [tfe |-> UNION {{<<w, g>> : g \in DOMAIN t[w]} : w \in DOMAIN t},
            qji |-> IF model = 1
                    THEN {}
                    ELSE UNION {{<<key[1], key[2], key[3], j>> :
                                    j \in DOMAIN q[key]} : key \in DOMAIN q}]
    /\ pc' = "done"
    /\ UNCHANGED <<n, k, paramVars, corpusVars, count, iteration, call, msteps,
                   notEstimate>>

NextEM ==
    \/ EMReadCorpus
    \/ EMCreateParameters
    \/ EMInitialize
    \/ EMSetModel
    \/ EMBeginIteration
    \/ EMEStep
    \/ EMMStep
    \/ EMEndIterate
    \/ EMWriteParameters

SpecEM == InitEM /\ [][NextEM]_vars

(***************************************************************************)
(* Properties of improve_alignments.py                                     *)
(***************************************************************************)

\* The adjacent and diagonal neighbours of a point.
EightNeighbours(p) ==
    {<<p[1] + di, p[2] + dj>> : di \in {-1, 0, 1}, dj \in {-1, 0, 1}} \ {p}

\* The sweep of improve_alignments(k) is running or has just ended.
InSweep == pc = "sweep"

SweepEnded == pc = "sweep" /\ pending = {}

\* C1: at every step of the sweep and at its end the alignment contains
\* every point of Ae \cap Af and no point outside Ae \cup Af, and a step of
\* the sweep never removes a point.
C1_Superset ==
    /\ [](InSweep => /\ (ae[k] \cap af[k]) \subseteq alignment
                     /\ alignment \subseteq (ae[k] \cup af[k]))
    /\ [][(InSweep /\ pc' = "sweep") => alignment \subseteq alignment']_vars

\* A sweep ended that added a point and skipped another one.
C1_Witness ==
    /\ SweepEnded
    /\ ae[k] \cap af[k] # {}
    /\ alignment # ae[k] \cap af[k]
    /\ alignment # ae[k] \cup af[k]

\* The printing step of improve_alignments(k).
PrintStep == pc = "sweep" /\ pc' = "improve_loop"

\* The lines a printing step appends to the standard output.
NewLines == SubSeq(out', Len(out) + 1, Len(out'))

\* Every point of the result that came from the p(f|e) file was read from a
\* decoder line "sentence, english position, foreign position".
ReadFromDecoderLines ==
    \A p \in alignment \cap ae[k] : <<k, p[2], p[1]>> \in english_alignments

\* C5 as stated: one line per result point with english position > 0, in
\* increasing (foreign, english) order, fields in the order sentence index,
\* foreign position, english position.
C5_ForeignFirst ==
    [][PrintStep =>
        /\ ReadFromDecoderLines
        /\ {NewLines[x] : x \in 1..Len(NewLines)}
               = {<<k, p[1], p[2]>> : p \in {r \in alignment : r[2] > 0}}
        /\ Len(NewLines) = Cardinality({r \in alignment : r[2] > 0})
        /\ \A x, y \in 1..Len(NewLines) :
              x < y => PairLess(<<NewLines[x][2], NewLines[x][3]>>,
                                <<NewLines[y][2], NewLines[y][3]>>)]_vars

\* C5 amended: the same lines in the same order, but with the fields in the
\* order sentence index, english position, foreign position (the field
\* order of the decoder's own lines).
C5_EnglishFirst ==
    [][PrintStep =>
        /\ ReadFromDecoderLines
        /\ {NewLines[x] : x \in 1..Len(NewLines)}
               = {<<k, p[2], p[1]>> : p \in {r \in alignment : r[2] > 0}}
        /\ Len(NewLines) = Cardinality({r \in alignment : r[2] > 0})
        /\ \A x, y \in 1..Len(NewLines) :
              x < y => PairLess(<<NewLines[x][3], NewLines[x][2]>>,
                                <<NewLines[y][3], NewLines[y][2]>>)]_vars

\* Sentence pair 1 was printed: two lines, with different foreign and
\* english positions, the second of a point that the sweep added.
C5_Witness ==
    /\ pc = "improve_loop"
    /\ k = 2
    /\ Len(out) = 2
    /\ out[1][2] # out[1][3]
    /\ out[2][2] # out[2][3]
    /\ <<out[2][3], out[2][2]>> \notin ae[1] \cap af[1]

\* The example of C9: (2, 2) is a neighbour of (1, 1), and (3, 1) is a
\* neighbour of (2, 2) only.
C9_Ae == {<<1, 1>>, <<2, 2>>, <<3, 1>>}

C9_Af == {<<1, 1>>}

\* The sequence o with the point p moved to its end.
RECURSIVE Without(_, _)
Without(o, p) ==
    IF o = <<>> THEN <<>>
    ELSE (IF Head(o) = p THEN <<>> ELSE <<Head(o)>>) \o Without(Tail(o), p)

MoveLast(o, p) == Append(Without(o, p), p)

\* The point p could be added to the alignment al with covered words w.
EligibleIn(p, al, w) ==
    /\ EightNeighbours(p) \cap al # {}
    /\ (p[1] \notin w[1] \/ p[2] \notin w[2])

\* C9: the single sweep is order-dependent.  Two orders of the same two
\* points end with different results; and whenever a sweep ends with a
\* skipped point that has become eligible, the point was not revisited, and
\* the order that visits this point last ends with a different result.
C9_OrderDependent ==
    /\ SweepResult(C9_Ae, C9_Af, << <<2, 2>>, <<3, 1>> >>)
           # SweepResult(C9_Ae, C9_Af, << <<3, 1>>, <<2, 2>> >>)
    /\ SweepEnded =>
          /\ alignment = SweepResult(ae[k], af[k], order)
          /\ \A p \in (ae[k] \cup af[k]) \ alignment :
                EligibleIn(p, alignment, words) =>
                    SweepResult(ae[k], af[k], MoveLast(order, p))
                        = alignment \cup {p}

\* A sweep ended in which a point had no neighbour in the result when it
\* was visited, was skipped, and is eligible at the end.
C9_Witness ==
    /\ SweepEnded
    /\ \E x \in 1..Len(order) :
          /\ EightNeighbours(order[x]) \cap
                 SweepFrom(StartState(ae[k], af[k]),
                           SubSeq(order, 1, x - 1)).alignment = {}
          /\ order[x] \notin alignment
          /\ EligibleIn(order[x], alignment, words)

\* C10: a visited point is added exactly when one of its eight neighbours
\* is in the result and its foreign or its english position is not covered,
\* and adding it covers both positions; so the covered positions are the
\* positions of the points of the result, and every point of the result
\* outside the intersection has a neighbour in the result.
C10_AddRule ==
    /\ [][(InSweep /\ pc' = "sweep") =>
            \A p \in pending \ pending' :
                /\ (p \in alignment') <=> EligibleIn(p, alignment, words)
                /\ alignment' \subseteq alignment \cup {p}
                /\ p \in alignment' => (p[1] \in words'[1] /\ p[2] \in words'[2])
         ]_vars
    /\ [](InSweep =>
            /\ words[1] = {p[1] : p \in alignment}
            /\ words[2] = {p[2] : p \in alignment}
            /\ \A p \in alignment \ (ae[k] \cap af[k]) :
                  EightNeighbours(p) \cap alignment # {})

\* A sweep ended that added a point and skipped a point which had a
\* neighbour in the result but whose two positions were covered.
C10_Witness ==
    /\ SweepEnded
    /\ alignment # ae[k] \cap af[k]
    /\ \E x \in 1..Len(order) :
          LET before == SweepFrom(StartState(ae[k], af[k]),
                                  SubSeq(order, 1, x - 1))
          IN  /\ EightNeighbours(order[x]) \cap before.alignment # {}
              /\ order[x][1] \in before.words[1]
              /\ order[x][2] \in before.words[2]
              /\ order[x] \notin alignment

\* The sentence indices main has called improve_alignments for, to its end.
Processed == 1..(k - 1)

\* C11: in a run that has passed the count check of read_alignments, no
\* call of improve_alignments looks up a sentence index that is missing
\* from ae or af, and a run that ends has processed every sentence index
\* of either file.
C11_EveryIndexProcessed ==
    /\ pc # "KeyError"
    /\ pc = "done" => (DOMAIN ae \cup DOMAIN af) \subseteq Processed

(***************************************************************************)
(* Properties of find_alignments.py                                        *)
(***************************************************************************)

\* find_alignments has returned for the sentence pair e[k], f[k] (counted
\* from 1), and a is its list.
Decoded == pc = "find_loop" /\ k >= 1

\* The score q(j|i,l,m) * t(f_i|e_j) of position j for foreign position i of
\* the last decoded sentence pair: the float that the product of the two
\* table values is.
C3_Score(i, j) ==
    DoubleMul(q[<<i, Len(e[k]), Len(f[k])>>][j],
              t[IF j = 0 THEN NULL ELSE e[k][j]][f[k][i]])

C3_Less(x, y) == DoubleLess(x, y)

\* C3: for every foreign position i the chosen english position a[i] is in
\* 0..l, no position has a greater score, and every smaller position has a
\* strictly smaller score.
C3_ArgMaxFirst ==
    Decoded =>
        /\ Len(a) = Len(f[k])
        /\ \A i \in 1..Len(f[k]) :
              /\ a[i] \in 0..Len(e[k])
              /\ \A j \in 0..Len(e[k]) :
                    /\ ~C3_Less(C3_Score(i, a[i]), C3_Score(i, j))
                    /\ j < a[i] => C3_Less(C3_Score(i, j), C3_Score(i, a[i]))

\* A sentence pair was decoded in which a non-NULL position was chosen
\* although a later position has the same, maximal score.
C3_Witness ==
    /\ Decoded
    /\ \E i \in 1..Len(f[k]) : \E j \in 0..Len(e[k]) :
          /\ a[i] > 0
          /\ j > a[i]
          /\ ~C3_Less(C3_Score(i, j), C3_Score(i, a[i]))

\* Every pair (e_j, f_i) of the sentence pair (es, fs), e_0 = NULL, has an
\* entry in t.
C6_InSupport(es, fs) ==
    \A i \in 1..Len(fs) : \A j \in 0..Len(es) :
        /\ (IF j = 0 THEN NULL ELSE es[j]) \in DOMAIN t
        /\ fs[i] \in DOMAIN t[IF j = 0 THEN NULL ELSE es[j]]

\* C6: with model 1, find_alignments does not stop on a missing key for a
\* sentence pair whose pairs are in the support of t, and the position it
\* chooses has the maximal t(f_i|e_j).
C6_Model1Decodes ==
    /\ (model = 1 /\ pc = "KeyError") => ~C6_InSupport(e[k + 1], f[k + 1])
    /\ (model = 1 /\ Decoded) =>
          \A i \in 1..Len(f[k]) : \A j \in 0..Len(e[k]) :
              ~C3_Less(t[IF a[i] = 0 THEN NULL ELSE e[k][a[i]]][f[k][i]],
                       t[IF j = 0 THEN NULL ELSE e[k][j]][f[k][i]])

\* C4: when the two corpus files of find_alignments.py, run by main with
\* model 2, have different numbers of sentences, no alignment line is
\* written and the run does not end normally.
C4_MismatchExits ==
    (model = 2 /\ Len(e) # Len(f)) => (out = <<>> /\ pc # "done")

(***************************************************************************)
(* Properties of estimate_model_parameters.py                              *)
(***************************************************************************)

\* The sum of the values of the entries keys of a row of a table.
RECURSIVE SumOver(_, _)
SumOver(row, keys) ==
    IF keys = {}
    THEN <<0, 1>>
    ELSE LET x == CHOOSE y \in keys : TRUE
         IN  RAdd(row[x], SumOver(row, keys \ {x}))

RowSum(row) == SumOver(row, DOMAIN row)

\* initialize has returned: t and q hold the initial guesses or the values
\* of the last M-step.
Initialized ==
    pc \in {"set_model", "iterate", "e_step", "write_parameters", "done"}

\* The last step was an M-step of the given model.
AfterMStep(m) ==
    /\ pc = "iterate"
    /\ msteps # <<>>
    /\ msteps[Len(msteps)] = m

\* C2 as stated: after initialize and after every M-step, the values of
\* every key present in t and of every key present in q sum to 1.
C2_EveryKey ==
    Initialized =>
        /\ \A w \in DOMAIN t : RowSum(t[w]) = <<1, 1>>
        /\ \A key \in DOMAIN q : RowSum(q[key]) = <<1, 1>>

\* C2: after initialize and after every M-step, the values of every key of
\* t that has at least one entry sum to 1, a key of t without entries has
\* the sum 0, and the values of every key of q sum to 1.
C2_KeysWithEntries ==
    Initialized =>
        /\ \A w \in DOMAIN t :
              RowSum(t[w]) = IF DOMAIN t[w] = {} THEN <<0, 1>> ELSE <<1, 1>>
        /\ \A key \in DOMAIN q : RowSum(q[key]) = <<1, 1>>

\* An M-step of model 2 has left values in t and in q that are not the
\* initial guesses, in rows of several entries.
C2_Witness ==
    /\ AfterMStep(2)
    /\ \E w \in DOMAIN t : Cardinality(DOMAIN t[w]) > 1
                           /\ t[w] # Uniform(TSupport)[w]
    /\ \E key \in DOMAIN q : q[key] # Uniform(QSupport)[key]

\* The models of the M-steps of a run of main, in order.
Schedule ==
    [x \in 1..(Model1Iterations + Model2Iterations) |->
        IF x <= Model1Iterations THEN 1 ELSE 2]

IsPrefix(s, r) ==
    /\ Len(s) <= Len(r)
    /\ \A x \in 1..Len(s) : s[x] = r[x]

\* The first iteration of model 2 is about to begin.
Model2Starts == pc = "iterate" /\ call = 2 /\ iteration = 0

\* C7: the M-steps come in the order of the schedule, all of model 1
\* before any of model 2; an iteration is in its E-step only when every
\* iteration before it has done its M-step; no step taken with model 1
\* changes q, which holds its initial values until the first M-step of
\* model 2; t changes only in initialize and in an M-step, so that the
\* first iteration of model 2 starts from the t of the last M-step of
\* model 1; and write_parameters runs only after the last M-step.
C7_Schedule ==
    /\ [](IsPrefix(msteps, Schedule))
    /\ [](pc = "e_step" =>
             /\ Len(msteps) = (call - 1) * Model1Iterations + iteration
             /\ model = Schedule[Len(msteps) + 1])
    /\ [](Model2Starts =>
             /\ Len(msteps) = Model1Iterations
             /\ q = Uniform(QSupport))
    /\ []((Initialized /\ Len(msteps) <= Model1Iterations) =>
             q = Uniform(QSupport))
    /\ [][(Initialized /\ model = 1) => q' = q]_vars
    /\ [][Initialized => (t' = t \/ msteps' = Append(msteps, model))]_vars
    /\ [](pc \in {"write_parameters", "done"} => msteps = Schedule)
    /\ [][pc # "write_parameters" => written' = written]_vars

\* The first iteration of model 2 is about to begin, and the iterations of
\* model 1 have moved t away from its initial values.
C7_Witness ==
    /\ Model2Starts
    /\ t # Uniform(TSupport)
    /\ Len(e) > 1

\* The posterior of the english position j for the foreign position i.
Posterior(es, fs, i, j) == RDiv(Weight(es, fs, i, j), Total(es, fs, i))

\* The counts after every pair of positions (j, i) of the sentence pair,
\* from (j, i) on, has added its posterior to the counts of its words and
\* of its positions.
RECURSIVE PosteriorCounts(_, _, _, _, _)
PosteriorCounts(cnt, es, fs, j, i) ==
    IF j > Len(es)
    THEN cnt
    ELSE IF i > Len(fs)
         THEN PosteriorCounts(cnt, es, fs, j + 1, 1)
         ELSE LET d == Posterior(es, fs, i, j)
                  l == Len(es)
                  m == Len(fs)
              IN  PosteriorCounts([cnt EXCEPT
                                      !.ef = Bump(@, <<WordAt(es, j), fs[i]>>, d),
                                      !.e = Bump(@, WordAt(es, j), d),
                                      !.ilmj = Bump(@, <<i, l, m, j>>, d),
                                      !.ilm = Bump(@, <<i, l, m>>, d)],
                                  es, fs, j, i + 1)

\* The number of the sentence pairs among the first x that have the key
\* (i, l, m).
Occurrences(key, x) ==
    Cardinality({s \in 1..x : /\ Len(e[s]) = key[2]
                              /\ Len(f[s]) = key[3]
                              /\ key[1] \in 1..Len(f[s])})

\* No word occurs twice in the sentence.
DistinctWords(sentence) ==
    Cardinality(Tokens(sentence)) = Len(sentence) /\ NULL \notin Tokens(sentence)

\* C8: the E-step of model 2 adds, for every pair of positions of the
\* sentence pair, the posterior of the pair to the counts, and count(i,l,m)
\* is the number of the occurrences of the key so far.
C8_PosteriorCounts ==
    /\ [][(pc = "e_step" /\ k < n /\ model = 2) =>
             count' = PosteriorCounts(count, e[k + 1], f[k + 1], 0, 1)]_vars
    /\ []((pc = "e_step" /\ model = 2) =>
             \A key \in DOMAIN count.ilm :
                 count.ilm[key] = <<Occurrences(key, k), 1>>)

\* The E-step of model 2 adds the posteriors for the sentence pairs in
\* which no word occurs twice.
C8_DistinctWords ==
    [][(/\ pc = "e_step" /\ k < n /\ model = 2
        /\ DistinctWords(e[k + 1]) /\ DistinctWords(f[k + 1])) =>
          count' = PosteriorCounts(count, e[k + 1], f[k + 1], 0, 1)]_vars

=============================================================================
